---------------------------- MODULE Spec2Model ----------------------------
(***************************************************************************)
(* Model of src/element/boxplot_outliers.rs (plotters): the box-plot       *)
(* statistics (BoxplotData), the element built from them                   *)
(* (BoxplotOutliers), its point sequence and its draw routine.             *)
(*                                                                         *)
(* Numbers.  An f64 is a record: a finite value [k |-> "num", v |-> x],    *)
(* an infinity [k |-> "inf", v |-> +1 / -1] or NaN.  A finite value x      *)
(* stands for x/8, so that the quarter fractions of the percentile         *)
(* interpolation and the factor 1.5 of the fences are exact on samples     *)
(* that are whole numbers (multiples of 8 here).  Every arithmetic         *)
(* operation is exact while its result stays within +/- F64Max and yields  *)
(* an infinity beyond it; inf - inf and inf * 0 are NaN; every comparison  *)
(* with NaN is false.  The range is a scaled-down f64 range and rounding   *)
(* of in-range results is not modelled.  An f32 has the same shape with    *)
(* range F32Max and F32Mant significant bits.                              *)
(***************************************************************************)
EXTENDS Integers, Sequences, FiniteSets

VARIABLES
    sample,     \* BoxplotData::new's argument `values`
    data,       \* the BoxplotData it returned (st: "none" before the call)
    element,    \* the BoxplotOutliers element (st: "none" before new_*)
    points,     \* what point_iter returned (st: "none" before the call)
    pctS,       \* percentile_of_sorted's argument `s`
    pctIn,      \* percentile_of_sorted's argument `pct`, in percent
    pctOut,     \* percentile_of_sorted's outcome (st: "none" before the call)
    dpoints,    \* draw's argument `points`, collected
    pc,         \* draw's position
    ci,         \* draw's loop index i (0-based, as in the code)
    calls,      \* the backend calls made so far, in order, with their outcomes
    result      \* what draw returned (st: "none" before it returns)

vars == <<sample, data, element, points, pctS, pctIn, pctOut,
          dpoints, pc, ci, calls, result>>

---------------------------------------------------------------------------
(* Bounds *)

MaxLen == 5        \* longest enumerated sample
F64MaxExp == 20    \* the modelled f64 range is +/- 2^F64MaxExp
F32MaxExp == 18    \* the modelled f32 range is +/- 2^F32MaxExp
F32Mant == 10      \* significant bits of a modelled f32
MaxPoints == 7     \* longest point sequence handed to draw

RECURSIVE Pow2(_)
Pow2(n) == IF n = 0 THEN 1 ELSE 2 * Pow2(n - 1)

F64Max == Pow2(F64MaxExp)
F32Max == Pow2(F32MaxExp)

Abs(x) == IF x < 0 THEN -x ELSE x

---------------------------------------------------------------------------
(* f64 and f32 arithmetic *)

Num(x) == [k |-> "num", v |-> x]
PInf == [k |-> "inf", v |-> 1]
NInf == [k |-> "inf", v |-> -1]
NaN == [k |-> "nan", v |-> 0]

\* The f64 nearest an exact result x: itself in range, an infinity beyond.
F64Of(x) == IF x > F64Max THEN PInf ELSE IF x < -F64Max THEN NInf ELSE Num(x)

FNeg(a) == IF a.k = "nan" THEN NaN ELSE [k |-> a.k, v |-> -a.v]

FAdd(a, b) ==
    IF a.k = "nan" \/ b.k = "nan" THEN NaN
    ELSE IF a.k = "inf" /\ b.k = "inf" THEN (IF a.v = b.v THEN a ELSE NaN)
    ELSE IF a.k = "inf" THEN a
    ELSE IF b.k = "inf" THEN b
    ELSE F64Of(a.v + b.v)

FSub(a, b) == FAdd(a, FNeg(b))

\* a * (q4 / 4) for a quarter count q4 >= 0 (d of the interpolation: 0..3;
\* the fences' 1.5: 6).
FMulQ(a, q4) ==
    IF a.k = "nan" THEN NaN
    ELSE IF a.k = "inf" THEN (IF q4 = 0 THEN NaN ELSE a)
    ELSE F64Of((a.v * q4) \div 4)

\* The position of a non-NaN value on the extended real line.
Key(a) == IF a.k = "inf" THEN a.v * (F64Max + 1) ELSE a.v

FLt(a, b) == a.k # "nan" /\ b.k # "nan" /\ Key(a) < Key(b)
FGt(a, b) == FLt(b, a)
FLe(a, b) == a.k # "nan" /\ b.k # "nan" /\ Key(a) <= Key(b)

\* T::into for a finite sample value.
IntoF64(x) == Num(x)

RECURSIVE BitLen(_)
BitLen(x) == IF x = 0 THEN 0 ELSE 1 + BitLen(x \div 2)

\* A non-negative integer rounded to F32Mant significant bits, ties to even.
RoundMant(x) ==
    IF BitLen(x) <= F32Mant THEN x
    ELSE LET q == Pow2(BitLen(x) - F32Mant)
             lo == (x \div q) * q
             r == x - lo
         IN  IF 2 * r < q THEN lo
             ELSE IF 2 * r > q THEN lo + q
             ELSE IF (x \div q) % 2 = 0 THEN lo ELSE lo + q

\* `x as f32`.
AsF32(a) ==
    IF a.k # "num" THEN a
    ELSE LET m == RoundMant(Abs(a.v))
         IN  IF m > F32Max THEN (IF a.v < 0 THEN NInf ELSE PInf)
             ELSE Num(IF a.v < 0 THEN -m ELSE m)

---------------------------------------------------------------------------
(* BoxplotData *)

NoData ==
    [st |-> "none", minimum |-> NaN, lower_quartile |-> NaN, median |-> NaN,
     upper_quartile |-> NaN, maximum |-> NaN, outliers |-> <<>>]

\* A failed assert!, an unwrap of None, an index out of range: the call
\* unwinds and returns nothing.
PanicData == [NoData EXCEPT !.st = "panic"]

PctPanic == [st |-> "panic", val |-> NaN]
PctOk(x) == [st |-> "ok", val |-> x]

\* The interpolation of percentile_of_sorted once its assertions have passed:
\* rank = pct/100 * (len-1), in quarters r4 (pct is a multiple of 25).
Interpolate(s, pct) ==
    LET r4 == (pct * (Len(s) - 1)) \div 25
        n == r4 \div 4
        d4 == r4 % 4
        lo == IntoF64(s[n + 1])
        hi == IntoF64(s[n + 2])
    IN  PctOk(FAdd(lo, FMulQ(FSub(hi, lo), d4)))

\* A version that lacks `assert!(0_f64 <= pct)`: a negative rank floors to
\* -1 with d = 0.75 and `as usize` saturates it to index 0.
PercentileNoLowerAssert(s, pct) ==
    IF Len(s) = 0 THEN PctPanic
    ELSE IF Len(s) = 1 THEN PctOk(IntoF64(s[1]))
    ELSE IF pct > 100 THEN PctPanic
    ELSE IF pct = 100 THEN PctOk(IntoF64(s[Len(s)]))
    ELSE IF pct < 0
         THEN PctOk(FAdd(IntoF64(s[1]),
                         FMulQ(FSub(IntoF64(s[2]), IntoF64(s[1])), 3)))
    ELSE Interpolate(s, pct)

PercentileOfSorted(s, pct) ==
    IF Len(s) = 0 THEN PctPanic
    ELSE IF Len(s) = 1 THEN PctOk(IntoF64(s[1]))
    ELSE IF ~(0 <= pct) THEN PctPanic
    ELSE IF ~(pct <= 100) THEN PctPanic
    ELSE IF pct = 100 THEN PctOk(IntoF64(s[Len(s)]))
    ELSE Interpolate(s, pct)

RECURSIVE Insert(_, _)
Insert(s, x) ==
    IF s = <<>> THEN <<x>>
    ELSE IF x <= Head(s) THEN <<x>> \o s
    ELSE <<Head(s)>> \o Insert(Tail(s), x)

RECURSIVE SortAsc(_)
SortAsc(s) == IF s = <<>> THEN <<>> ELSE Insert(SortAsc(Tail(s)), Head(s))

\* A version that skips the sort.
SortSkipped(s) == s

\* values.sort_unstable_by(|a, b| a.partial_cmp(b).unwrap())
SortValues(s) == SortAsc(s)

None == [some |-> FALSE, val |-> NaN]
Some(x) == [some |-> TRUE, val |-> x]

\* v.into() < lower_fence || v.into() > upper_fence
IsOutlier(v, lower_fence, upper_fence) ==
    FLt(v, lower_fence) \/ FGt(v, upper_fence)

\* A version of the loop that sets maximum as it sets minimum: once, at the
\* first value inside the fences.
RECURSIVE ClassifyMaxOnce(_, _, _, _, _)
ClassifyMaxOnce(s, k, lf, uf, acc) ==
    IF k > Len(s) THEN acc
    ELSE LET v == IntoF64(s[k])
         IN  IF IsOutlier(v, lf, uf)
             THEN ClassifyMaxOnce(s, k + 1, lf, uf,
                                  [acc EXCEPT !.outliers = Append(@, v)])
             ELSE ClassifyMaxOnce(s, k + 1, lf, uf,
                                  [acc EXCEPT
                                     !.minimum = IF @.some THEN @ ELSE Some(v),
                                     !.maximum = IF @.some THEN @ ELSE Some(v)])

\* The loop `for v in values` from its k-th value on, with the loop's state.
RECURSIVE Classify(_, _, _, _, _)
Classify(s, k, lf, uf, acc) ==
    IF k > Len(s) THEN acc
    ELSE LET v == IntoF64(s[k])
         IN  IF IsOutlier(v, lf, uf)
             THEN Classify(s, k + 1, lf, uf,
                           [acc EXCEPT !.outliers = Append(@, v)])
             ELSE Classify(s, k + 1, lf, uf,
                           [acc EXCEPT
                              !.minimum = IF @.some THEN @ ELSE Some(v),
                              !.maximum = Some(v)])

\* BoxplotData::new
BoxplotDataNew(values0) ==
    LET values == SortValues(values0)
        lower == PercentileOfSorted(values, 25)
        median == PercentileOfSorted(values, 50)
        upper == PercentileOfSorted(values, 75)
    IN  IF lower.st = "panic" \/ median.st = "panic" \/ upper.st = "panic"
        THEN PanicData
        ELSE LET iqr == FSub(upper.val, lower.val)
                 lower_fence == FSub(lower.val, FMulQ(iqr, 6))
                 upper_fence == FAdd(upper.val, FMulQ(iqr, 6))
                 fin == Classify(values, 1, lower_fence, upper_fence,
                                 [outliers |-> <<>>, minimum |-> None,
                                  maximum |-> None])
             IN  IF ~fin.minimum.some \/ ~fin.maximum.some THEN PanicData
                 ELSE [st |-> "ok",
                       minimum |-> fin.minimum.val,
                       lower_quartile |-> lower.val,
                       median |-> median.val,
                       upper_quartile |-> upper.val,
                       maximum |-> fin.maximum.val,
                       outliers |-> fin.outliers]

\* BoxplotData::values
Values(d) ==
    <<AsF32(d.minimum), AsF32(d.lower_quartile), AsF32(d.median),
      AsF32(d.upper_quartile), AsF32(d.maximum)>>


---------------------------------------------------------------------------
(* BoxplotOutliers: construction, fluent setters, point_iter *)

DEFAULT_WIDTH == 10

NoElement ==
    [st |-> "none", style |-> [color |-> "BLACK"], width |-> 0,
     whisker_width |-> 0, offset |-> 0, key |-> "none", values |-> <<>>,
     outliers |-> <<>>, orient |-> "none"]

RECURSIVE MapAsF32(_)
MapAsF32(s) ==
    IF s = <<>> THEN <<>> ELSE <<AsF32(Head(s))>> \o MapAsF32(Tail(s))

\* The body shared by new_vertical and new_horizontal.  whisker_width and
\* offset are f64 counted in quarters: 4 is 1.0.
NewElement(key, boxplot_data, orient) ==
    [st |-> "ok",
     style |-> [color |-> "BLACK"],
     width |-> DEFAULT_WIDTH,
     whisker_width |-> 4,
     offset |-> 0,
     key |-> key,
     values |-> Values(boxplot_data),
     outliers |-> MapAsF32(boxplot_data.outliers),
     orient |-> orient]

\* BoxplotOrient::make_coord: the key on the key axis (X for a vertical
\* plot, Y for a horizontal one), the value on the other.
MakeCoord(orient, key, val) ==
    IF orient = "V" THEN <<key, val>> ELSE <<val, key>>

RECURSIVE MapCoord(_, _, _)
MapCoord(orient, key, s) ==
    IF s = <<>> THEN <<>>
    ELSE <<MakeCoord(orient, key, Head(s))>> \o MapCoord(orient, key, Tail(s))

\* A version that pushes the outliers first.
PointIterOutliersFirst(e) ==
    MapCoord(e.orient, e.key, e.outliers) \o MapCoord(e.orient, e.key, e.values)

\* PointCollection::point_iter
PointIterOf(e) ==
    MapCoord(e.orient, e.key, e.values) \o MapCoord(e.orient, e.key, e.outliers)

NoPoints == [st |-> "none", pts |-> <<>>]

---------------------------------------------------------------------------
(* Inputs *)

\* A finite value beyond half the f64 range, and a multiple of 8.
Big == 6 * (F64Max \div 8)

SampleValues == {-Big, 0, 8, 24, Big}

\* The samples of the documentation and the tests: [6], [7,15,36,39,40,41],
\* and the latter with 1000 appended.
DocSample == <<56, 120, 288, 312, 320, 328>>
DocSamples == {<<48>>, DocSample, Append(DocSample, 8000)}

Samples == UNION {[1..n -> SampleValues] : n \in 0..MaxLen} \cup DocSamples

Keys == {"group", "other"}

\* pct, in percent: the three that new passes, the two ends, and one beyond
\* each end.
Pcts == {-25, 0, 25, 50, 75, 100, 125}

IsSorted(s) == \A i \in 1..(Len(s) - 1) : s[i] <= s[i + 1]

---------------------------------------------------------------------------
(* The statistics and the element *)

DrawIdle ==
    /\ dpoints = <<>>
    /\ pc = "idle"
    /\ ci = 0
    /\ calls = <<>>
    /\ result = [st |-> "none", err |-> "none"]

PctIdle ==
    /\ pctS = <<>>
    /\ pctIn = 0
    /\ pctOut = [st |-> "none", val |-> NaN]

Init ==
    /\ sample \in Samples
    /\ data = NoData
    /\ element = NoElement
    /\ points = NoPoints
    /\ PctIdle
    /\ DrawIdle

New ==
    /\ data.st = "none"
    /\ data' = BoxplotDataNew(sample)
    /\ UNCHANGED <<sample, element, points, pctS, pctIn, pctOut,
                   dpoints, pc, ci, calls, result>>

NewVertical ==
    /\ data.st = "ok"
    /\ element.st = "none"
    /\ \E key \in Keys : element' = NewElement(key, data, "V")
    /\ UNCHANGED <<sample, data, points, pctS, pctIn, pctOut,
                   dpoints, pc, ci, calls, result>>

NewHorizontal ==
    /\ data.st = "ok"
    /\ element.st = "none"
    /\ \E key \in Keys : element' = NewElement(key, data, "H")
    /\ UNCHANGED <<sample, data, points, pctS, pctIn, pctOut,
                   dpoints, pc, ci, calls, result>>

PointIter ==
    /\ element.st = "ok"
    /\ points.st = "none"
    /\ points' = [st |-> "ok", pts |-> PointIterOf(element)]
    /\ UNCHANGED <<sample, data, element, pctS, pctIn, pctOut,
                   dpoints, pc, ci, calls, result>>

Next == New \/ NewVertical \/ NewHorizontal \/ PointIter

Spec == Init /\ [][Next]_vars

---------------------------------------------------------------------------
(* percentile_of_sorted on its own *)

InitPct ==
    /\ pctS \in {s \in Samples : IsSorted(s)}
    /\ pctIn \in Pcts
    /\ pctOut = [st |-> "none", val |-> NaN]
    /\ sample = <<>>
    /\ data = NoData
    /\ element = NoElement
    /\ points = NoPoints
    /\ DrawIdle

Percentile ==
    /\ pctOut.st = "none"
    /\ pctOut' = PercentileOfSorted(pctS, pctIn)
    /\ UNCHANGED <<sample, data, element, points, pctS, pctIn,
                   dpoints, pc, ci, calls, result>>

NextPct == Percentile \/ New

SpecPct == InitPct /\ [][NextPct]_vars


---------------------------------------------------------------------------
(* Statistics whose arithmetic stays in range *)

InitExact ==
    /\ Init
    /\ \A i \in 1..Len(sample) : Abs(sample[i]) < Big

SpecExact == InitExact /\ [][Next]_vars

---------------------------------------------------------------------------
(* Drawable::draw, one backend call at a time *)

Ok == [st |-> "ok", err |-> "none"]
Err(e) == [st |-> "err", err |-> e]

\* What the backend may answer to a call.
BackendErrors == {"io", "full"}
Outcomes == {Ok} \cup {Err(e) : e \in BackendErrors}

\* An f64 counted in quarters, cast to a whole number of pixels.
TruncQ(d4) == IF d4 >= 0 THEN d4 \div 4 ELSE -((-d4) \div 4)

\* BoxplotOrient::with_offset: the shift of a backend point along the key
\* axis (X for a vertical plot, Y for a horizontal one).
WithOffset(orient, coord, d4) ==
    IF orient = "V" THEN <<coord[1] + TruncQ(d4), coord[2]>>
    ELSE <<coord[1], coord[2] + TruncQ(d4)>>

\* The closures of draw.  width is f64::from(self.width); in quarters
\* width / 2.0 is 2 * width and width * whisker_width / 2.0 is
\* width * whisker_width / 2.
Moved(e, coord) == WithOffset(e.orient, coord, e.offset)
StartBar(e, coord) == WithOffset(e.orient, Moved(e, coord), -(2 * e.width))
EndBar(e, coord) == WithOffset(e.orient, Moved(e, coord), 2 * e.width)
StartWhisker(e, coord) ==
    WithOffset(e.orient, Moved(e, coord), -((e.width * e.whisker_width) \div 2))
EndWhisker(e, coord) ==
    WithOffset(e.orient, Moved(e, coord), (e.width * e.whisker_width) \div 2)

Min2(a, b) == IF a <= b THEN a ELSE b
Max2(a, b) == IF a >= b THEN a ELSE b

UpperLeft(c1, c2) == <<Min2(c1[1], c2[1]), Min2(c1[2], c2[2])>>
BottomRight(c1, c2) == <<Max2(c1[1], c2[1]), Max2(c1[2], c2[2])>>

\* (width / 2.0) as u32
Radius(e) == e.width \div 2

\* The style argument: the whole ShapeStyle, or its colour alone.
StyleOf(e) == <<"style", e.style.color>>
ColorOf(e) == <<"color", e.style.color>>

Line(a, b, sty) == [op |-> "draw_line", a |-> a, b |-> b, sty |-> sty]
Rect(a, b, sty) == [op |-> "draw_rect", a |-> a, b |-> b, sty |-> sty]
Circle(c, r, sty) == [op |-> "draw_circle", a |-> c, b |-> <<r, r>>, sty |-> sty]

\* points[i] with the code's 0-based index.
P(i) == dpoints[i + 1]

\* A version that draws from four points on.
DrawGuardFour(n) == n >= 4

\* points.len() >= 5
DrawGuard(n) == n >= 5

\* A version without `?`: the outcome of the call is dropped.
PropagateDropped(r, next, res) == [pc |-> next, result |-> res]

\* `?` after a backend call: its error returns from draw, its success goes
\* on to the next statement.
Propagate(r, next, res) ==
    IF r.st = "err" THEN [pc |-> "done", result |-> r]
    ELSE [pc |-> next, result |-> res]

\* One backend call and the `?` after it.
BackendCall(call, next) ==
    \E r \in Outcomes :
        /\ calls' = Append(calls, [call |-> call, res |-> r])
        /\ pc' = Propagate(r, next, result).pc
        /\ result' = Propagate(r, next, result).result

\* Sequences of backend points: n points on a diagonal, running either way,
\* so that point 3 is on either side of point 1.
Diagonal(n, c, up) ==
    [i \in 1..n |-> IF up THEN <<c + 3 * i, 40 - 3 * i>>
                    ELSE <<40 - 3 * i, c + 3 * i>>]
PointSeqs ==
    {Diagonal(n, c, up) : n \in 0..MaxPoints, c \in {0, 7}, up \in BOOLEAN}

Widths == {DEFAULT_WIDTH, 5}
WhiskerWidths == {4, 2}
Offsets == {0, -20}
Styles == {[color |-> "BLACK"], [color |-> "BLUE"]}

\* The element of test_draw_v and test_draw_h: built from Quartiles::new(&[6]).
InitDraw ==
    /\ sample = <<48>>
    /\ data = BoxplotDataNew(<<48>>)
    /\ element \in {NewElement("group", BoxplotDataNew(<<48>>), o) : o \in {"V", "H"}}
    /\ points = NoPoints
    /\ PctIdle
    /\ DrawIdle

Untouched == UNCHANGED <<sample, data, points, pctS, pctIn, pctOut>>

SetStyle ==
    /\ pc = "idle"
    /\ \E s \in Styles : element' = [element EXCEPT !.style = s]
    /\ Untouched
    /\ UNCHANGED <<dpoints, pc, ci, calls, result>>

SetWidth ==
    /\ pc = "idle"
    /\ \E w \in Widths : element' = [element EXCEPT !.width = w]
    /\ Untouched
    /\ UNCHANGED <<dpoints, pc, ci, calls, result>>

SetWhiskerWidth ==
    /\ pc = "idle"
    /\ \E w \in WhiskerWidths : element' = [element EXCEPT !.whisker_width = w]
    /\ Untouched
    /\ UNCHANGED <<dpoints, pc, ci, calls, result>>

SetOffset ==
    /\ pc = "idle"
    /\ \E o \in Offsets : element' = [element EXCEPT !.offset = o]
    /\ Untouched
    /\ UNCHANGED <<dpoints, pc, ci, calls, result>>

\* let points: Vec<_> = points.collect(); if points.len() >= 5 { ... }
DrawCollect ==
    /\ pc = "idle"
    /\ \E pts \in PointSeqs :
          /\ dpoints' = pts
          /\ pc' = IF DrawGuard(Len(pts)) THEN "lower_cap" ELSE "return"
    /\ Untouched
    /\ UNCHANGED <<element, ci, calls, result>>

DrawLowerCap ==
    /\ pc = "lower_cap"
    /\ BackendCall(Line(StartWhisker(element, P(0)), EndWhisker(element, P(0)),
                        StyleOf(element)), "lower_stem")
    /\ Untouched
    /\ UNCHANGED <<element, dpoints, ci>>

\* A version that takes the stem from point 1 to point 2.
DrawLowerStemShifted ==
    /\ pc = "lower_stem"
    /\ BackendCall(Line(Moved(element, P(1)), Moved(element, P(2)),
                        ColorOf(element)), "box")
    /\ Untouched
    /\ UNCHANGED <<element, dpoints, ci>>

DrawLowerStem ==
    /\ pc = "lower_stem"
    /\ BackendCall(Line(Moved(element, P(0)), Moved(element, P(1)),
                        ColorOf(element)), "box")
    /\ Untouched
    /\ UNCHANGED <<element, dpoints, ci>>

DrawBox ==
    /\ pc = "box"
    /\ LET corner1 == StartBar(element, P(3))
           corner2 == EndBar(element, P(1))
       IN  BackendCall(Rect(UpperLeft(corner1, corner2),
                            BottomRight(corner1, corner2),
                            StyleOf(element)), "median")
    /\ Untouched
    /\ UNCHANGED <<element, dpoints, ci>>

DrawMedian ==
    /\ pc = "median"
    /\ BackendCall(Line(StartBar(element, P(2)), EndBar(element, P(2)),
                        StyleOf(element)), "upper_stem")
    /\ Untouched
    /\ UNCHANGED <<element, dpoints, ci>>

DrawUpperStem ==
    /\ pc = "upper_stem"
    /\ BackendCall(Line(Moved(element, P(3)), Moved(element, P(4)),
                        StyleOf(element)), "upper_cap")
    /\ Untouched
    /\ UNCHANGED <<element, dpoints, ci>>

\* The last statement before `for i in 5..points.len()`, which sets i.
DrawUpperCap ==
    /\ pc = "upper_cap"
    /\ BackendCall(Line(StartWhisker(element, P(4)), EndWhisker(element, P(4)),
                        StyleOf(element)), "circles")
    /\ ci' = 5
    /\ Untouched
    /\ UNCHANGED <<element, dpoints>>

\* One turn of the loop.
DrawCircle ==
    /\ pc = "circles"
    /\ ci < Len(dpoints)
    /\ BackendCall(Circle(Moved(element, P(ci)), Radius(element),
                          StyleOf(element)), "circles")
    /\ ci' = ci + 1
    /\ Untouched
    /\ UNCHANGED <<element, dpoints>>

\* The end of the loop.
DrawLoopEnd ==
    /\ pc = "circles"
    /\ ci >= Len(dpoints)
    /\ pc' = "return"
    /\ Untouched
    /\ UNCHANGED <<element, dpoints, ci, calls, result>>

\* Ok(())
DrawReturn ==
    /\ pc = "return"
    /\ pc' = "done"
    /\ result' = Ok
    /\ Untouched
    /\ UNCHANGED <<element, dpoints, ci, calls>>

NextDraw ==
    \/ SetStyle \/ SetWidth \/ SetWhiskerWidth \/ SetOffset
    \/ DrawCollect \/ DrawLowerCap \/ DrawLowerStem \/ DrawBox \/ DrawMedian
    \/ DrawUpperStem \/ DrawUpperCap \/ DrawCircle \/ DrawLoopEnd \/ DrawReturn

SpecDraw == InitDraw /\ [][NextDraw]_vars

---------------------------------------------------------------------------
(* Properties of the statistics *)

Summarized == data.st = "ok"

\* The fences as the claims define them, from the summary's quartiles.
IqrOf(d) == FSub(d.upper_quartile, d.lower_quartile)
LowerFenceOf(d) == FSub(d.lower_quartile, FMulQ(IqrOf(d), 6))
UpperFenceOf(d) == FAdd(d.upper_quartile, FMulQ(IqrOf(d), 6))

StrictlyOutside(d, v) ==
    FLt(IntoF64(v), LowerFenceOf(d)) \/ FGt(IntoF64(v), UpperFenceOf(d))
Within(d, v) ==
    FLe(LowerFenceOf(d), IntoF64(v)) /\ FLe(IntoF64(v), UpperFenceOf(d))

\* How many times x occurs in s.
Count(s, x) == Cardinality({i \in 1..Len(s) : s[i] = x})

Ascending(fs) == \A i \in 1..(Len(fs) - 1) : FLe(fs[i], fs[i + 1])

Front(s) == SubSeq(s, 1, Len(s) - 1)
Last(s) == s[Len(s)]

\* The values of s at the positions that `keep` marks, in order.
RECURSIVE Keep(_, _)
Keep(s, keep) ==
    IF s = <<>> THEN <<>>
    ELSE IF keep[1] THEN <<Head(s)>> \o Keep(Tail(s), Tail(keep))
    ELSE Keep(Tail(s), Tail(keep))

\* The values of the sample that the summary d does not put outside its
\* fences, in the sample's order.
InFence(d, s) == Keep(s, [i \in 1..Len(s) |-> ~StrictlyOutside(d, s[i])])

\* C1: for every non-empty sample the summary returned satisfies
\* minimum <= lower_quartile <= median <= upper_quartile <= maximum.
C1_MonotonicSummary ==
    Summarized =>
        /\ FLe(data.minimum, data.lower_quartile)
        /\ FLe(data.lower_quartile, data.median)
        /\ FLe(data.median, data.upper_quartile)
        /\ FLe(data.upper_quartile, data.maximum)

\* C2: for every non-empty sample some value lies inside the fences, so
\* minimum and maximum are set and neither assertion of new fails: the call
\* returns a summary.
C2_SomeValueInFences ==
    (data.st # "none" /\ sample # <<>>) => data.st = "ok"

\* C4: the outliers are exactly the sample values, with multiplicity, that
\* are strictly below the lower fence or strictly above the upper fence, in
\* ascending order, and every other sample value lies within
\* [lower_fence, upper_fence].
C4_OutliersExactlyOutsideFences ==
    Summarized =>
        /\ Ascending(data.outliers)
        /\ \A i \in 1..Len(sample) :
              LET v == sample[i]
              IN  /\ StrictlyOutside(data, v) =>
                        Count(data.outliers, IntoF64(v)) = Count(sample, v)
                  /\ ~StrictlyOutside(data, v) =>
                        /\ Count(data.outliers, IntoF64(v)) = 0
                        /\ Within(data, v)
        /\ \A j \in 1..Len(data.outliers) :
              \E i \in 1..Len(sample) : data.outliers[j] = IntoF64(sample[i])

\* The case of C3: the sample is a sample with one more value appended, and
\* that value is strictly outside the fences both of the sample it was
\* appended to and of the whole, while new returns a summary of the whole
\* (some other value lies inside its fences).
AppendedOutlier ==
    /\ Summarized
    /\ Len(sample) >= 2
    /\ BoxplotDataNew(Front(sample)).st = "ok"
    /\ StrictlyOutside(BoxplotDataNew(Front(sample)), Last(sample))
    /\ StrictlyOutside(data, Last(sample))

OnlyInOutliers(d, v) ==
    /\ Count(d.outliers, IntoF64(v)) >= 1
    /\ d.minimum # IntoF64(v)
    /\ d.maximum # IntoF64(v)

Swap(s, i, j) ==
    [k \in 1..Len(s) |-> IF k = i THEN s[j] ELSE IF k = j THEN s[i] ELSE s[k]]

\* C8: a permuted sample has the same summary.  Every exchange of two
\* neighbours of the sample leaves the outcome of new unchanged; the samples
\* range over every sequence within the bounds, and the exchanges of
\* neighbours generate every permutation.
C8_OrderInvariance ==
    data.st # "none" =>
        \A i \in 1..(Len(sample) - 1) :
            BoxplotDataNew(Swap(sample, i, i + 1)) = data

C8_Witness ==
    /\ Summarized
    /\ ~IsSorted(sample)
    /\ Len(data.outliers) >= 1
    /\ \E i \in 1..(Len(sample) - 1) : sample[i] > sample[i + 1]

\* The value that point i carries, and its key.
ValueOf(e, p) == IF e.orient = "V" THEN p[2] ELSE p[1]
KeyOf(e, p) == IF e.orient = "V" THEN p[1] ELSE p[2]

\* C9: point_iter yields 5 + |outliers| points that all carry the element's
\* key: minimum, Q1, median, Q3, maximum (narrowed to f32) in that order,
\* then the summary's outliers in their ascending order.
C9_PointSequence ==
    points.st = "ok" =>
        LET want == <<data.minimum, data.lower_quartile, data.median,
                      data.upper_quartile, data.maximum>> \o data.outliers
        IN  /\ Len(points.pts) = 5 + Len(data.outliers)
            /\ \A i \in 1..Len(points.pts) :
                  /\ KeyOf(element, points.pts[i]) = element.key
                  /\ ValueOf(element, points.pts[i]) = AsF32(want[i])
            /\ \A i \in 6..(Len(points.pts) - 1) :
                  FLe(ValueOf(element, points.pts[i]),
                      ValueOf(element, points.pts[i + 1]))

C9_Witness ==
    /\ points.st = "ok"
    /\ Len(data.outliers) >= 2
    /\ data.outliers[1] # data.outliers[2]
    /\ Len(points.pts) = 5 + Len(data.outliers)

\* C10 as claimed: percentile_of_sorted aborts on every empty input and on
\* every input whose pct is outside [0, 100], and new aborts on the empty
\* sample.
C10_AsClaimed ==
    /\ (pctOut.st # "none" /\ (Len(pctS) = 0 \/ pctIn < 0 \/ pctIn > 100))
          => pctOut.st = "panic"
    /\ (data.st # "none" /\ sample = <<>>) => data.st = "panic"

\* C10 as amended: percentile_of_sorted aborts on every empty input and on
\* every input of two or more values whose pct is outside [0, 100]; on an
\* input of one value it returns that value whatever pct is; new aborts on
\* the empty sample.
C10_AbortOnViolation ==
    /\ (pctOut.st # "none" /\ Len(pctS) = 0) => pctOut.st = "panic"
    /\ (pctOut.st # "none" /\ Len(pctS) >= 2 /\ (pctIn < 0 \/ pctIn > 100))
          => pctOut.st = "panic"
    /\ (pctOut.st # "none" /\ Len(pctS) = 1)
          => pctOut = PctOk(IntoF64(pctS[1]))
    /\ (data.st # "none" /\ sample = <<>>) => data.st = "panic"

C10_Witness ==
    /\ pctOut.st = "panic"
    /\ Len(pctS) >= 2
    /\ pctIn < 0
    /\ data.st = "panic"

---------------------------------------------------------------------------
(* Properties of draw *)

NoCallFailed == \A j \in 1..Len(calls) : calls[j].res = Ok

\* C5: once a backend call has failed, draw makes no further call and
\* returns that failure: a failed call is the last call, draw has returned,
\* and what it returned is that call's error.
C5_FailFast ==
    \A j \in 1..Len(calls) :
        calls[j].res.st = "err" =>
            /\ j = Len(calls)
            /\ pc = "done"
            /\ result = calls[j].res

\* The first draw_line fails on a sequence with outliers: it is the only call.
C5_Witness ==
    /\ pc = "done"
    /\ Len(dpoints) >= 6
    /\ Len(calls) = 1
    /\ calls[1].call.op = "draw_line"
    /\ calls[1].res = Err("io")
    /\ result = Err("io")

\* C6: with fewer than 5 points draw makes no backend call and returns
\* success.
C6_DegenerateDraw ==
    (pc # "idle" /\ Len(dpoints) < 5) =>
        /\ calls = <<>>
        /\ pc \in {"return", "done"}
        /\ pc = "done" => result = Ok

C6_Witness ==
    /\ pc = "done"
    /\ Len(dpoints) = 4
    /\ calls = <<>>
    /\ result = Ok
    /\ element.width # DEFAULT_WIDTH
    /\ element.orient = "H"

\* C7: with n >= 5 points and a backend that never fails, draw returns
\* success after 6 + (n - 5) calls: the lower cap at point 0, the stem from
\* point 0 to point 1, the box from points 3 and 1, the median at point 2,
\* the stem from point 3 to point 4, the upper cap at point 4, then one
\* circle per point 5..n-1 in order.
C7_DrawSequence ==
    (pc = "done" /\ Len(dpoints) >= 5 /\ NoCallFailed) =>
        LET e == element
            n == Len(dpoints)
            c1 == StartBar(e, P(3))
            c2 == EndBar(e, P(1))
        IN  /\ result = Ok
            /\ Len(calls) = 6 + (n - 5)
            /\ calls[1].call =
                  Line(StartWhisker(e, P(0)), EndWhisker(e, P(0)), StyleOf(e))
            /\ calls[2].call = Line(Moved(e, P(0)), Moved(e, P(1)), ColorOf(e))
            /\ calls[3].call =
                  Rect(UpperLeft(c1, c2), BottomRight(c1, c2), StyleOf(e))
            /\ calls[4].call = Line(StartBar(e, P(2)), EndBar(e, P(2)), StyleOf(e))
            /\ calls[5].call = Line(Moved(e, P(3)), Moved(e, P(4)), StyleOf(e))
            /\ calls[6].call =
                  Line(StartWhisker(e, P(4)), EndWhisker(e, P(4)), StyleOf(e))
            /\ \A i \in 5..(n - 1) :
                  calls[i + 2].call = Circle(Moved(e, P(i)), Radius(e), StyleOf(e))

C7_Witness ==
    /\ pc = "done"
    /\ result = Ok
    /\ Len(dpoints) >= 7
    /\ Len(calls) = Len(dpoints) + 1
    /\ NoCallFailed

===========================================================================
